---- MODULE Spec2Model ----
(***************************************************************************)
(* CostDataRetriever/lambda_function.py: a Lambda handler that routes one  *)
(* Bedrock-agent request to get_ec2_cpu_utilization, which asks EC2 for    *)
(* the instance type and CloudWatch for 24 hourly CPU averages, and wraps  *)
(* the summary into the agent's response envelope.                         *)
(*                                                                         *)
(* Numbers: a data point's 'Average' is an integer count of thousandths of *)
(* a percent; a value rounded by round(x, 2) is an integer count of        *)
(* hundredths of a percent.                                                *)
(***************************************************************************)
EXTENDS Integers, Sequences, FiniteSets, TLC

\* Longest list of hourly data points the metrics service answers with.
MaxBuckets == 3

\* ---------------------------------------------------------------- values

SupportedApiPath == "/get_ec2_cpu_utilization"
HttpStatusOk == 200

\* Python's None, and a key that a dict does not have.
PyNone == "<None>"
Absent == "<absent>"
\* A local variable that has not been assigned yet.
Unset == "<unset>"

NoSummary == [none |-> TRUE]
NoResponse == [none |-> TRUE]
NoFault == "none"

SuccessKeys == {"instance_id", "instance_type", "average_cpu_utilization_24h", "message"}
FailureKeys == {"instance_id", "error", "message"}
SuccessKeyOrder == <<"instance_id", "instance_type", "average_cpu_utilization_24h", "message">>
FailureKeyOrder == <<"instance_id", "error", "message">>

\* ---------------------------------------------------------------- inputs

\* The client's own exception for an argument of the wrong type.
ParamValidation == "Parameter validation failed"

ActionGroups == {"CostActions", "OtherActions"}
ApiPaths == {SupportedApiPath, "/resize_instance"}
HttpMethods == {"GET", "POST", Absent}
InstanceIds == {"i-123", "i-999"}
\* 0.0, 0.004, 0.005, 0.014 and 10.0 percent
Averages == {0, 4, 5, 14, 10000}

\* event['requestBody']['content']['application/json']['body']: a string that
\* is no JSON, a JSON array, or a JSON object with or without instance_id.
Bodies ==
    {[kind |-> "garbage", instance_id |-> Absent],
     [kind |-> "array", instance_id |-> Absent],
     [kind |-> "object", instance_id |-> Absent]}
    \cup {[kind |-> "object", instance_id |-> i] : i \in InstanceIds}

Events ==
    [actionGroup : ActionGroups, apiPath : ApiPaths,
     httpMethod : HttpMethods, body : Bodies]

\* What describe_instances answers: a ClientError, or a response whose
\* 'Reservations' is a list of reservations, each a list of instance types.
InventoryOutcomes ==
    {[kind |-> "error", cause |-> c, Reservations |-> <<>>] :
        c \in {"InvalidInstanceID.NotFound", "UnauthorizedOperation",
               ParamValidation}}
    \cup {[kind |-> "response", cause |-> "", Reservations |-> r] :
        r \in {<<>>, << <<>> >>, << <<"t3.micro">> >>,
               << <<"m5.large", "t3.micro">> >>}}

SeqsUpTo(S, n) == UNION {[1..k -> S] : k \in 0..n}

\* What get_metric_statistics answers: a ClientError, a response without
\* the 'Datapoints' key, or a response with a list of data points.
MetricsOutcomes ==
    {[kind |-> "error", cause |-> c, hasDatapoints |-> FALSE,
      Datapoints |-> <<>>] : c \in {"Throttling", ParamValidation}}
    \cup
    {[kind |-> "response", cause |-> "", hasDatapoints |-> FALSE,
      Datapoints |-> <<>>]}
    \cup {[kind |-> "response", cause |-> "", hasDatapoints |-> TRUE,
           Datapoints |-> d] : d \in SeqsUpTo(Averages, MaxBuckets)}

\* ---------------------------------------------------------------- state

VARIABLES
    pc,             \* position of the one synchronous invocation
    event,          \* the inbound envelope
    env,            \* what the two collaborators answer in this invocation
    instance_id,    \* parameter of get_ec2_cpu_utilization
    instance_type,  \* local of get_ec2_cpu_utilization
    data_points,    \* local of get_ec2_cpu_utilization
    result,         \* the summary get_ec2_cpu_utilization returned
    response,       \* the envelope lambda_handler returned
    fault,          \* the exception lambda_handler raised
    resolverCalls,  \* calls of get_ec2_cpu_utilization in this invocation
    invCalls,       \* calls of ec2_client.describe_instances
    metCalls,       \* calls of cloudwatch_client.get_metric_statistics
    invStatus,      \* "notcalled", "ok" or "failed"
    metStatus       \* "notcalled", "ok" or "failed"

vars == <<pc, event, env, instance_id, instance_type, data_points, result,
          response, fault, resolverCalls, invCalls, metCalls, invStatus,
          metStatus>>

NoEvent == [actionGroup |-> Unset, apiPath |-> Unset, httpMethod |-> Unset,
            body |-> [kind |-> Unset, instance_id |-> Unset]]
NoEnv == [inv |-> [kind |-> Unset, cause |-> "", Reservations |-> <<>>],
          met |-> [kind |-> Unset, cause |-> "", hasDatapoints |-> FALSE,
                   Datapoints |-> <<>>]]

\* ---------------------------------------------------------------- helpers

RECURSIVE Sum(_)
Sum(s) == IF s = <<>> THEN 0 ELSE Head(s) + Sum(Tail(s))

\* str() inside an f-string.
Str(v) == IF v = PyNone THEN "None" ELSE v

\* round(total / n, 2) for total in thousandths, in hundredths.  The double
\* nearest to a decimal tie (x.xx5) lies on either side of it, and round()
\* rounds that double correctly, so a tie yields either neighbour.
Round2Trunc(total, n) == {total \div (10 * n)}
Round2(total, n) ==
    LET q == total \div (10 * n)
        r == total % (10 * n)
    IN  IF 2 * r < 10 * n THEN {q}
        ELSE IF 2 * r > 10 * n THEN {q + 1}
        ELSE {q, q + 1}

\* Lines 40-46 and the round() of line 52.
CpuAverage(points) ==
    IF points # <<>> THEN Round2(Sum(points), Len(points)) ELSE {0}

SuccessMessage(id, avg, type) ==
    [text |-> "Successfully retrieved data for {instance_id}. Average CPU: {avg}%. Current Type: {instance_type}",
     instance_id |-> Str(id), avg |-> avg, instance_type |-> type]

FailureMessage(id) ==
    [text |-> "Failed to retrieve data for {instance_id}. Check instance ID or permissions.",
     instance_id |-> Str(id)]

SuccessSummary(id, type, avg) ==
    [instance_id |-> id, instance_type |-> type,
     average_cpu_utilization_24h |-> avg,
     message |-> SuccessMessage(id, avg, type)]

FailureSummaryWithType(id, e) ==
    [instance_id |-> id, instance_type |-> Unset, error |-> e,
     message |-> FailureMessage(id)]
FailureSummaryGeneric(id, e) ==
    [instance_id |-> id, error |-> "error", message |-> FailureMessage(id)]
FailureSummary(id, e) ==
    [instance_id |-> id, error |-> e, message |-> FailureMessage(id)]

\* Lines 40-54: the summaries the success path can return for these points.
SuccessPathNoGuard(id, type, points) ==
    IF points = <<>> THEN {FailureSummary(id, "division by zero")}
    ELSE {SuccessSummary(id, type, a) : a \in Round2(Sum(points), Len(points))}
SuccessPath(id, type, points) ==
    {SuccessSummary(id, type, a) : a \in CpuAverage(points)}

\* ec2_response['Reservations'][0]['Instances'][0]['InstanceType'], or the
\* exception of the call or of the indexing.
InventoryLookup(inv) ==
    IF inv.kind = "error"
    THEN [ok |-> FALSE, type |-> Unset, cause |-> inv.cause]
    ELSE IF inv.Reservations = <<>> \/ inv.Reservations[1] = <<>>
    THEN [ok |-> FALSE, type |-> Unset, cause |-> "list index out of range"]
    ELSE [ok |-> TRUE, type |-> inv.Reservations[1][1], cause |-> ""]

\* cloudwatch_response.get('Datapoints', []), or the exception of the call.
MetricsQuery(met) ==
    IF met.kind = "error"
    THEN [ok |-> FALSE, points |-> <<>>, cause |-> met.cause]
    ELSE [ok |-> TRUE,
          points |-> IF met.hasDatapoints THEN met.Datapoints ELSE <<>>,
          cause |-> ""]

\* Where the try block goes after each collaborator call.
AfterInventoryAlways(ok) == "metrics"
AfterInventory(ok) == IF ok THEN "metrics" ELSE "wrap"
AfterMetricsRetry(ok) == IF ok THEN "reduce" ELSE "metrics"
AfterMetrics(ok) == IF ok THEN "reduce" ELSE "wrap"

\* json.loads of the request body.
JsonLoads(body) ==
    IF body.kind = "garbage"
    THEN [ok |-> FALSE, isDict |-> FALSE, instance_id |-> Absent]
    ELSE [ok |-> TRUE, isDict |-> body.kind = "object",
          instance_id |-> body.instance_id]

\* parameters.get('instance_id')
ParametersGet(parameters) ==
    IF parameters.instance_id = Absent THEN PyNone ELSE parameters.instance_id

\* json.dumps of a summary: its members in insertion order.
JsonDumps(d) ==
    LET keys == IF "error" \in DOMAIN d THEN FailureKeyOrder
                ELSE SuccessKeyOrder
    IN  [i \in 1..Len(keys) |->
            [key |-> keys[i],
             value |-> IF keys[i] = "instance_id" /\ d[keys[i]] = PyNone
                       THEN "null" ELSE d[keys[i]]]]

IsSupportedAny(api_path) == TRUE
IsSupported(api_path) == api_path = SupportedApiPath

\* event['httpMethod']
EventMethodDefault(e) ==
    [ok |-> TRUE, value |-> IF e.httpMethod = Absent THEN PyNone ELSE e.httpMethod]
EventMethod(e) ==
    IF e.httpMethod = Absent THEN [ok |-> FALSE, value |-> Absent]
    ELSE [ok |-> TRUE, value |-> e.httpMethod]

\* Lines 78-88.
OutboundEnvelopeByOutcome(action, api_path, http_method, summary) ==
    [actionGroup |-> action, apiPath |-> api_path, httpMethod |-> http_method,
     httpStatusCode |-> IF "error" \in DOMAIN summary THEN 500 ELSE HttpStatusOk,
     body |-> JsonDumps(summary)]
OutboundEnvelope(action, api_path, http_method, summary) ==
    [actionGroup |-> action, apiPath |-> api_path, httpMethod |-> http_method,
     httpStatusCode |-> HttpStatusOk,
     body |-> JsonDumps(summary)]

\* ---------------------------------------------------------------- actions

Init ==
    /\ pc = "idle"
    /\ event = NoEvent
    /\ env = NoEnv
    /\ instance_id = Unset
    /\ instance_type = Unset
    /\ data_points = <<>>
    /\ result = NoSummary
    /\ response = NoResponse
    /\ fault = NoFault
    /\ resolverCalls = 0
    /\ invCalls = 0
    /\ metCalls = 0
    /\ invStatus = "notcalled"
    /\ metStatus = "notcalled"

\* The runtime calls lambda_handler(event, context); lines 67-68 read the
\* action group and the routing key.  An instance id of None never passes
\* the parameter validation of either client, and no other id fails it.
Invoke ==
    /\ pc = "idle"
    /\ \E e \in Events, i \in InventoryOutcomes, m \in MetricsOutcomes :
        /\ (e.body.instance_id = Absent) <=> (i.cause = ParamValidation)
        /\ (e.body.instance_id = Absent) <=> (m.cause = ParamValidation)
        /\ event' = e
        /\ env' = [inv |-> i, met |-> m]
    /\ pc' = "route"
    /\ UNCHANGED <<instance_id, instance_type, data_points, result, response,
                   fault, resolverCalls, invCalls, metCalls, invStatus,
                   metStatus>>

\* Line 71, and line 91 for any other path.
Route ==
    /\ pc = "route"
    /\ IF IsSupported(event.apiPath)
       THEN pc' = "parse" /\ fault' = fault
       ELSE pc' = "faulted" /\ fault' = "UnsupportedApiPath"
    /\ UNCHANGED <<event, env, instance_id, instance_type, data_points,
                   result, response, resolverCalls, invCalls, metCalls,
                   invStatus, metStatus>>

\* Lines 72-75: decode the body, read instance_id, enter the resolver.
ParseBody ==
    /\ pc = "parse"
    /\ LET parameters == JsonLoads(event.body)
       IN  IF ~parameters.ok
           THEN /\ pc' = "faulted"
                /\ fault' = "JSONDecodeError"
                /\ UNCHANGED <<instance_id, resolverCalls>>
           ELSE IF ~parameters.isDict
           THEN /\ pc' = "faulted"
                /\ fault' = "AttributeError"
                /\ UNCHANGED <<instance_id, resolverCalls>>
           ELSE /\ pc' = "describe"
                /\ instance_id' = ParametersGet(parameters)
                /\ resolverCalls' = resolverCalls + 1
                /\ fault' = fault
    /\ UNCHANGED <<event, env, instance_type, data_points, result, response,
                   invCalls, metCalls, invStatus, metStatus>>

\* Lines 19-24, and lines 56-62 when the call or the indexing raises.
DescribeInstances ==
    /\ pc = "describe"
    /\ LET r == InventoryLookup(env.inv)
       IN  /\ pc' = AfterInventory(r.ok)
           /\ invStatus' = IF r.ok THEN "ok" ELSE "failed"
           /\ instance_type' = r.type
           /\ result' = IF r.ok THEN result
                        ELSE FailureSummary(instance_id, r.cause)
    /\ invCalls' = invCalls + 1
    /\ UNCHANGED <<event, env, instance_id, data_points, response, fault,
                   resolverCalls, metCalls, metStatus>>

\* Lines 27-38 and 41, and lines 56-62 when the call raises.
GetMetricStatistics ==
    /\ pc = "metrics"
    /\ LET r == MetricsQuery(env.met)
       IN  /\ pc' = AfterMetrics(r.ok)
           /\ metStatus' = IF r.ok THEN "ok" ELSE "failed"
           /\ data_points' = r.points
           /\ result' = IF r.ok THEN result
                        ELSE FailureSummary(instance_id, r.cause)
    /\ metCalls' = metCalls + 1
    /\ UNCHANGED <<event, env, instance_id, instance_type, response, fault,
                   resolverCalls, invCalls, invStatus>>

\* Lines 40-54.
Reduce ==
    /\ pc = "reduce"
    /\ result' \in SuccessPath(instance_id, instance_type, data_points)
    /\ pc' = "wrap"
    /\ UNCHANGED <<event, env, instance_id, instance_type, data_points,
                   response, fault, resolverCalls, invCalls, metCalls,
                   invStatus, metStatus>>

\* Lines 78-88.
Wrap ==
    /\ pc = "wrap"
    /\ LET m == EventMethod(event)
       IN  IF m.ok
           THEN /\ response' = OutboundEnvelope(event.actionGroup,
                                   event.apiPath, m.value, result)
                /\ pc' = "returned"
                /\ fault' = fault
           ELSE /\ response' = response
                /\ pc' = "faulted"
                /\ fault' = "KeyError"
    /\ UNCHANGED <<event, env, instance_id, instance_type, data_points,
                   result, resolverCalls, invCalls, metCalls, invStatus,
                   metStatus>>

\* The invocation is over; nothing is kept for the next one.
Finish ==
    /\ pc \in {"returned", "faulted"}
    /\ pc' = "idle"
    /\ event' = NoEvent
    /\ env' = NoEnv
    /\ instance_id' = Unset
    /\ instance_type' = Unset
    /\ data_points' = <<>>
    /\ result' = NoSummary
    /\ response' = NoResponse
    /\ fault' = NoFault
    /\ resolverCalls' = 0
    /\ invCalls' = 0
    /\ metCalls' = 0
    /\ invStatus' = "notcalled"
    /\ metStatus' = "notcalled"

Next ==
    \/ Invoke
    \/ Route
    \/ ParseBody
    \/ DescribeInstances
    \/ GetMetricStatistics
    \/ Reduce
    \/ Wrap
    \/ Finish

Spec == Init /\ [][Next]_vars

\* ---------------------------------------------------------------- claims

Resolved == result # NoSummary
Ended == pc \in {"returned", "faulted"}
IsSuccessShape == DOMAIN result = SuccessKeys
IsFailureShape == DOMAIN result = FailureKeys
NoRecords ==
    \/ env.inv.Reservations = <<>>
    \/ env.inv.Reservations[1] = <<>>

\* C1: every summary the resolver returns has exactly the success key set or
\* exactly the failure key set, and it has the success key set if and only
\* if the inventory lookup and the metrics query both succeeded.
C1_ExactlyOneShape ==
    Resolved =>
        /\ DOMAIN result \in {SuccessKeys, FailureKeys}
        /\ IsSuccessShape <=> (invStatus = "ok" /\ metStatus = "ok")
        /\ IsFailureShape <=> (invStatus = "failed" \/ metStatus = "failed")

C1_Witness ==
    /\ Resolved
    /\ IsSuccessShape
    /\ invStatus = "ok"
    /\ metStatus = "ok"

\* C2: when a leaf failed, the summary carries the instance id the resolver
\* was called with, the cause of the failure that occurred (the error of the
\* inventory call, the index error of an empty record list, or the error of
\* the metrics call), the fixed advisory message, and no instance type, also
\* when the type had been obtained before the metrics call failed.
C2_FailureSummaryContent ==
    (Resolved /\ (invStatus = "failed" \/ metStatus = "failed")) =>
        /\ DOMAIN result = FailureKeys
        /\ result.instance_id = instance_id
        /\ instance_id = IF event.body.instance_id = Absent THEN PyNone
                         ELSE event.body.instance_id
        /\ result.error =
              IF env.inv.kind = "error" THEN env.inv.cause
              ELSE IF NoRecords THEN "list index out of range"
              ELSE env.met.cause
        /\ result.error # ""
        /\ result.message.text =
              "Failed to retrieve data for {instance_id}. Check instance ID or permissions."
        /\ result.message.instance_id \in InstanceIds \cup {"None"}
        /\ (instance_id # PyNone) => (result.message.instance_id = instance_id)

C2_Witness ==
    /\ Resolved
    /\ metStatus = "failed"
    /\ instance_type \in {"t3.micro", "m5.large"}
    /\ result.error = "Throttling"

\* C3: an inventory success followed by a metrics success with no data
\* points gives the success summary with an average of exactly 0.0.
C3_EmptyIsZero ==
    (Resolved /\ invStatus = "ok" /\ metStatus = "ok" /\ data_points = <<>>) =>
        /\ IsSuccessShape
        /\ result.average_cpu_utilization_24h = 0

C3_Witness ==
    /\ Resolved
    /\ metStatus = "ok"
    /\ env.met.hasDatapoints
    /\ env.met.Datapoints = <<>>
    /\ IsSuccessShape

\* C4: for a non-empty list of bucket averages the reported average is the
\* sum of the buckets divided by their number, rounded to the nearest
\* hundredth: it is a whole number of hundredths within half a hundredth of
\* the exact mean.
C4_RoundedMean ==
    (Resolved /\ metStatus = "ok" /\ data_points # <<>>) =>
        /\ IsSuccessShape
        /\ LET a == result.average_cpu_utilization_24h
               n == Len(data_points)
               d == 10 * n * a - Sum(data_points)
           IN  /\ 2 * d <= 10 * n
               /\ 2 * d >= -(10 * n)
               /\ result.message.avg = a

C4_Witness ==
    /\ Resolved
    /\ data_points = <<4, 4, 14>>
    /\ IsSuccessShape
    /\ result.average_cpu_utilization_24h = 1

\* C5: for an envelope with another apiPath the handler ends by raising the
\* unsupported-path exception; it returns no envelope, and neither the
\* resolver nor a collaborator is called, whatever the body holds.
C5_UnsupportedPathFaults ==
    (event.apiPath \notin {SupportedApiPath, Unset}) =>
        /\ pc \in {"route", "faulted"}
        /\ (pc = "faulted") => (fault = "UnsupportedApiPath")
        /\ response = NoResponse
        /\ result = NoSummary
        /\ resolverCalls = 0
        /\ invCalls = 0
        /\ metCalls = 0

C5_Witness ==
    /\ pc = "faulted"
    /\ event.apiPath = "/resize_instance"
    /\ event.body.kind = "object"
    /\ event.body.instance_id = "i-123"
    /\ fault = "UnsupportedApiPath"

\* C6 as stated: for the supported apiPath and a body that decodes, the
\* handler returns an envelope with status 200 that echoes the inbound
\* actionGroup, apiPath and httpMethod and holds the encoded summary.
C6_Original ==
    (Ended /\ event.apiPath = SupportedApiPath /\ event.body.kind # "garbage") =>
        /\ pc = "returned"
        /\ fault = NoFault
        /\ response.httpStatusCode = HttpStatusOk
        /\ response.actionGroup = event.actionGroup
        /\ response.apiPath = event.apiPath
        /\ response.httpMethod = event.httpMethod
        /\ response.body = JsonDumps(result)

\* C6 as amended: for the supported apiPath, a body that decodes to a JSON
\* object and an envelope that has httpMethod, the handler returns an
\* envelope with status 200 that echoes the inbound actionGroup, apiPath and
\* httpMethod and holds the encoded summary of the resolver, whether the
\* lookups succeeded or one failed.
C6_Status200Envelope ==
    (Ended /\ event.apiPath = SupportedApiPath /\ event.body.kind = "object"
           /\ event.httpMethod # Absent) =>
        /\ pc = "returned"
        /\ fault = NoFault
        /\ Resolved
        /\ response.httpStatusCode = 200
        /\ response.actionGroup = event.actionGroup
        /\ response.apiPath = event.apiPath
        /\ response.httpMethod = event.httpMethod
        /\ Len(response.body) = Cardinality(DOMAIN result)
        /\ \A i \in 1..Len(response.body) :
              /\ response.body[i].key \in DOMAIN result
              /\ response.body[i].key # "instance_id" =>
                    response.body[i].value = result[response.body[i].key]
        /\ response.body[1].key = "instance_id"
        /\ response.body[1].value =
              IF instance_id = PyNone THEN "null" ELSE instance_id

C6_Witness ==
    /\ pc = "returned"
    /\ IsFailureShape
    /\ invStatus = "failed"
    /\ response.httpStatusCode = 200
    /\ response.body[2].key = "error"

C8_Original ==
    Resolved => (invStatus # "notcalled" /\ metStatus # "notcalled")

\* C8 as amended: a summary is produced only after the inventory call has
\* completed; after an inventory success it is produced only after the
\* metrics call has completed too, and after an inventory failure it is
\* produced at once, the metrics call never being made.
C8_ResultAfterLeaves ==
    /\ Resolved =>
        /\ invStatus # "notcalled"
        /\ (invStatus = "ok") => (metStatus # "notcalled")
        /\ (invStatus = "failed") => (metStatus = "notcalled" /\ metCalls = 0)
    /\ (invStatus = "failed") => Resolved
    /\ (metStatus # "notcalled") => (invStatus = "ok")

C8_Witness ==
    /\ Resolved
    /\ invStatus = "failed"
    /\ metStatus = "notcalled"
    /\ env.met.kind = "response"

\* The summaries of a resolver that follows the same try block with the
\* metrics query issued before the inventory lookup, and with both issued
\* together and either failure caught.
MetricsFirstSummaries(id, inv, met) ==
    LET i == InventoryLookup(inv)
        m == MetricsQuery(met)
    IN  IF ~m.ok THEN {FailureSummary(id, m.cause)}
        ELSE IF ~i.ok THEN {FailureSummary(id, i.cause)}
        ELSE SuccessPath(id, i.type, m.points)

ParallelSummaries(id, inv, met) ==
    LET i == InventoryLookup(inv)
        m == MetricsQuery(met)
    IN  IF i.ok /\ m.ok THEN SuccessPath(id, i.type, m.points)
        ELSE (IF i.ok THEN {} ELSE {FailureSummary(id, i.cause)})
             \cup (IF m.ok THEN {} ELSE {FailureSummary(id, m.cause)})

BothLeavesFail == ~InventoryLookup(env.inv).ok /\ ~MetricsQuery(env.met).ok
SameCause == InventoryLookup(env.inv).cause = MetricsQuery(env.met).cause

\* C9 as stated: for the same instance id and collaborator outcomes the
\* summary is the one a metrics-first resolver returns, and the only one a
\* parallel resolver returns, also when both leaves fail.
C9_Original ==
    Resolved =>
        /\ result \in MetricsFirstSummaries(instance_id, env.inv, env.met)
        /\ \A s \in ParallelSummaries(instance_id, env.inv, env.met) :
              DOMAIN s = DOMAIN result /\ (IsFailureShape => s = result)

\* C9 as amended: the summary does not depend on the order of the two leaf
\* calls unless both leaves fail with different causes; when both fail, the
\* summary carries the cause of the inventory failure, the metrics query
\* not being issued at all.
C9_OrderIndependentUnlessBothFail ==
    Resolved =>
        /\ (~BothLeavesFail \/ SameCause) =>
              /\ result \in MetricsFirstSummaries(instance_id, env.inv, env.met)
              /\ result \in ParallelSummaries(instance_id, env.inv, env.met)
        /\ BothLeavesFail =>
              /\ IsFailureShape
              /\ result.error = InventoryLookup(env.inv).cause
              /\ metCalls = 0

C9_Witness ==
    /\ Resolved
    /\ env.inv.kind = "error"
    /\ env.met.kind = "error"
    /\ env.inv.cause = "UnauthorizedOperation"
    /\ env.met.cause = "Throttling"
    /\ result.error = "UnauthorizedOperation"

\* C10: in a handler call the resolver runs at most once, the inventory
\* service is called at most once and exactly once by the time the resolver
\* has produced its summary, and the metrics service is called at most once;
\* a failed call is not repeated.
C10_NoRetry ==
    /\ resolverCalls <= 1
    /\ invCalls <= 1
    /\ metCalls <= 1
    /\ invCalls <= resolverCalls
    /\ metCalls <= invCalls
    /\ Resolved => (invCalls = 1)
    /\ (invStatus = "failed") => (invCalls = 1)
    /\ (metStatus = "failed") => (metCalls = 1)

C10_Witness ==
    /\ pc = "returned"
    /\ metStatus = "failed"
    /\ invCalls = 1
    /\ metCalls = 1

====
